---- MODULE Spec2Model ----
(***************************************************************************)
(* Image captioning backend (project3_backend.py): the model loader, the   *)
(* caption generator and the /health, /caption and /batch-caption          *)
(* handlers, with the upload directory they stage files in.                *)
(*                                                                         *)
(* Strings the code inspects character by character (filenames, generated  *)
(* text) are sequences of one-character strings.                           *)
(***************************************************************************)
EXTENDS Integers, Sequences, FiniteSets, TLC

\* ------------------------------------------------------------------------
\* Bounds of the model
\* ------------------------------------------------------------------------
\* torch.rand(1) draws from [0,1); the model draws k/RandSteps, k < RandSteps.
RandSteps == 3
\* In SpecSeq a batch is up to MaxPad decodable files followed by up to MaxTail
\* arbitrary ones, so lists longer than the limit of 10 occur.
MaxPad == 11
MaxTail == 2

\* ------------------------------------------------------------------------
\* Characters and strings
\* ------------------------------------------------------------------------
UpperChars == <<"A","B","C","D","E","F","G","H","I","J","K","L","M",
                "N","O","P","Q","R","S","T","U","V","W","X","Y","Z">>
LowerChars == <<"a","b","c","d","e","f","g","h","i","j","k","l","m",
                "n","o","p","q","r","s","t","u","v","w","x","y","z">>
Digits == {"0","1","2","3","4","5","6","7","8","9"}
Whitespace == {" "}

Range(s) == {s[i] : i \in DOMAIN s}

\* str.lower() of one character
LowerChar(c) ==
    IF \E i \in DOMAIN UpperChars : UpperChars[i] = c
    THEN LowerChars[CHOOSE i \in DOMAIN UpperChars : UpperChars[i] = c]
    ELSE c

Lower(s) == [i \in DOMAIN s |-> LowerChar(s[i])]

\* position of the last "." of s, 0 when there is none
LastDot(s) ==
    IF \E i \in DOMAIN s : s[i] = "."
    THEN CHOOSE i \in DOMAIN s : s[i] = "." /\ \A j \in DOMAIN s : s[j] = "." => j <= i
    ELSE 0

\* filename.rsplit('.', 1)[1]
Extension(s) == SubSeq(s, LastDot(s) + 1, Len(s))

ALLOWED_EXTENSIONS ==
    { <<"p","n","g">>, <<"j","p","g">>, <<"j","p","e","g">>,
      <<"w","e","b","p">>, <<"b","m","p">> }

allowed_file(filename) ==
    LastDot(filename) > 0 /\ Lower(Extension(filename)) \in ALLOWED_EXTENSIONS

\* s.strip(chars)
RECURSIVE LStrip(_, _)
LStrip(s, chars) ==
    IF s # <<>> /\ Head(s) \in chars THEN LStrip(Tail(s), chars) ELSE s

RECURSIVE RStrip(_, _)
RStrip(s, chars) ==
    IF s # <<>> /\ s[Len(s)] \in chars
    THEN RStrip(SubSeq(s, 1, Len(s) - 1), chars) ELSE s

Strip(s, chars) == RStrip(LStrip(s, chars), chars)

\* "_".join(s.split()): leading and trailing whitespace dropped, every inner
\* run of whitespace replaced by one "_"
RECURSIVE JoinRuns(_, _)
JoinRuns(s, inRun) ==
    IF s = <<>> THEN <<>>
    ELSE IF Head(s) \in Whitespace
         THEN IF inRun THEN JoinRuns(Tail(s), TRUE)
                       ELSE <<"_">> \o JoinRuns(Tail(s), TRUE)
         ELSE <<Head(s)>> \o JoinRuns(Tail(s), FALSE)

SplitJoin(s) == JoinRuns(Strip(s, Whitespace), FALSE)

\* the characters _filename_ascii_strip_re keeps: [A-Za-z0-9_.-]
SafeChars == Range(UpperChars) \cup Range(LowerChars) \cup Digits \cup {"_", ".", "-"}

RECURSIVE Filter(_, _)
Filter(s, keep) ==
    IF s = <<>> THEN <<>>
    ELSE IF Head(s) \in keep THEN <<Head(s)>> \o Filter(Tail(s), keep)
         ELSE Filter(Tail(s), keep)

\* werkzeug.utils.secure_filename on a POSIX host: path separators become
\* spaces, whitespace runs become "_", every character outside
\* [A-Za-z0-9_.-] is dropped, leading and trailing "." and "_" are stripped
secure_filename(filename) ==
    LET spaced == [i \in DOMAIN filename |->
                      IF filename[i] = "/" THEN " " ELSE filename[i]]
    IN  Strip(Filter(SplitJoin(spaced), SafeChars), {".", "_"})

UPLOAD_FOLDER == <<"u","p","l","o","a","d","s">>

\* os.path.join(app.config['UPLOAD_FOLDER'], filename)
PathJoin(dir, name) == dir \o <<"/">> \o name

\* ------------------------------------------------------------------------
\* Caption generator: the pure parts
\* ------------------------------------------------------------------------
STYLES == {"creative", "technical", "simple"}

\* request.form.get('style', 'creative') when the form has no style field
NoStyle == "<absent>"
FormStyle(style) == IF style = NoStyle THEN "creative" ELSE style

\* style_prompts.get(style, style_prompts['creative'])
StylePrompt(style) ==
    CASE style = "technical" -> "This image contains:"
      [] style = "simple"    -> "This is"
      [] OTHER               -> "A beautiful image showing"

\* gpt2_tokenizer.decode(output[0]): the prompt (one element) and what the
\* sampling continued it with
Decoded(style, cont) == <<StylePrompt(style)>> \o cont

EndsWithPeriod(s) == s # <<>> /\ s[Len(s)] = "."

CleanCaption_NoPeriod(text) == Strip(text, Whitespace)

\* caption.strip(); if not caption.endswith('.'): caption += '.'
CleanCaption(text) ==
    LET c == Strip(text, Whitespace)
    IN  IF EndsWithPeriod(c) THEN c ELSE c \o <<".">>

Min(a, b) == IF a <= b THEN a ELSE b

\* Confidences are fractions over ConfDen; torch.rand(1).item() is k/RandSteps.
ConfDen == 100 * RandSteps

\* min(0.85 + torch.rand(1).item() * 0.1, 0.95)
Confidence(k) == Min(85 * RandSteps + 10 * k, 95 * RandSteps)

WrapError_Bare(msg) == msg

\* raise Exception(f"Error generating caption: {str(e)}")
WrapError(msg) == <<"Error generating caption: ">> \o msg

\* ------------------------------------------------------------------------
\* The upload directory: a set of [path, bytes], one entry per path
\* ------------------------------------------------------------------------
Exists(dir, path) == \E e \in dir : e.path = path

ReadFile(dir, path) == (CHOOSE e \in dir : e.path = path).bytes

\* file.save(filepath): creates or overwrites
SaveFile(dir, path, bytes) ==
    {e \in dir : e.path # path} \cup {[path |-> path, bytes |-> bytes]}

RemoveFile_Noop(dir, path) == dir

\* os.remove(filepath)
RemoveFile(dir, path) == {e \in dir : e.path # path}

StagePath_PerRequest(r, filename) ==
    PathJoin(UPLOAD_FOLDER, <<r, "_">> \o secure_filename(filename))

\* filename = secure_filename(file.filename)
\* filepath = os.path.join(app.config['UPLOAD_FOLDER'], filename)
StagePath(r, filename) == PathJoin(UPLOAD_FOLDER, secure_filename(filename))

\* Uploaded bytes: two decodable images and one payload PIL cannot identify.
Bytes == {"imgA", "imgB", "junk"}
Decodable(b) == b # "junk"

\* image.size and image.format of a decodable payload
ImageInfo(b) ==
    IF b = "imgA" THEN [width |-> 1, height |-> 1, format |-> "PNG"]
                  ELSE [width |-> 2, height |-> 1, format |-> "JPEG"]

\* ------------------------------------------------------------------------
\* State
\* ------------------------------------------------------------------------
\* Request-handling threads of the server.
Reqs == {"t1", "t2"}

VARIABLES
    clip_model,      \* TRUE when the global is not None
    clip_processor,
    gpt2_model,
    gpt2_tokenizer,
    boot,            \* "start" before load_models() of line 55 ran, then "serving"
    load_ok,         \* load_models reached line 48
    uploads,         \* the upload directory
    pc,              \* where each thread's handler stands
    req,             \* the request a thread is serving
    loc,             \* the handler's local variables
    resp,            \* the response the handler returned
    gh               \* what the handler did while serving the request

vars == <<clip_model, clip_processor, gpt2_model, gpt2_tokenizer, boot, load_ok,
          uploads, pc, req, loc, resp, gh>>

models == <<clip_model, clip_processor, gpt2_model, gpt2_tokenizer, boot, load_ok>>

NoReq == [route |-> "none", hasFile |-> FALSE, filename |-> <<>>, bytes |-> "junk",
          style |-> NoStyle, files |-> <<>>]

NoResp == [status |-> 0, body |-> [error |-> <<>>], escaped |-> FALSE]

NoLoc == [style |-> "", filename |-> <<>>, filepath |-> <<>>, bytes |-> "junk",
          caption |-> <<>>, confidence |-> 0, info |-> ImageInfo("junk"),
          i |-> 0, results |-> <<>>]

\* staged: the files file.save wrote in full; gen: styles generate_caption was called with;
\* raw: the text the last successful generation decoded; generr: the failures
\* inside generate_caption, by file index (0 in /caption), with the underlying
\* message; got: what generate_caption found at the staged path; stagefail and
\* visited: the indices whose file.save raised, and the indices the batch loop
\* reached
NoGh == [staged |-> {}, gen |-> {}, raw |-> <<>>, generr |-> {}, got |-> "none",
         stagefail |-> {}, visited |-> {}]

\* jsonify(body), status
Json(status, body) == [status |-> status, body |-> body, escaped |-> FALSE]

\* except Exception as e: return jsonify({'error': str(e)}), 500
HandlerExcept(msg) == Json(500, [error |-> msg])

\* ------------------------------------------------------------------------
\* Model loader
\* ------------------------------------------------------------------------
\* The statements of load_models that can raise, in order.
LoadStmts == << "CLIPModel.from_pretrained", "CLIPProcessor.from_pretrained",
                "clip_model.to", "GPT2LMHeadModel.from_pretrained",
                "GPT2Tokenizer.from_pretrained", "gpt2_model.to" >>

StmtIndex(stmt) == CHOOSE i \in DOMAIN LoadStmts : LoadStmts[i] = stmt

\* the assignment of statement stmt was executed when the load raised at
\* statement failAt (0: nothing raised)
Assigned(stmt, failAt) == failAt = 0 \/ StmtIndex(stmt) < failAt

Init ==
    /\ clip_model = FALSE
    /\ clip_processor = FALSE
    /\ gpt2_model = FALSE
    /\ gpt2_tokenizer = FALSE
    /\ boot = "start"
    /\ load_ok = FALSE
    /\ uploads = {}
    /\ pc = [r \in Reqs |-> "idle"]
    /\ req = [r \in Reqs |-> NoReq]
    /\ loc = [r \in Reqs |-> NoLoc]
    /\ resp = [r \in Reqs |-> NoResp]
    /\ gh = [r \in Reqs |-> NoGh]

\* load_models(), called once at import; the except clause only prints.
\* failPoints: the statements at which the load may raise (0: none does)
load_models(failPoints) ==
    /\ boot = "start"
    /\ \E failAt \in failPoints :
          /\ clip_model' = Assigned("CLIPModel.from_pretrained", failAt)
          /\ clip_processor' = Assigned("CLIPProcessor.from_pretrained", failAt)
          /\ gpt2_model' = Assigned("GPT2LMHeadModel.from_pretrained", failAt)
          /\ gpt2_tokenizer' = Assigned("GPT2Tokenizer.from_pretrained", failAt)
          /\ load_ok' = (failAt = 0)
    /\ boot' = "serving"
    /\ UNCHANGED <<uploads, pc, req, loc, resp, gh>>

\* ------------------------------------------------------------------------
\* generate_caption
\* ------------------------------------------------------------------------
GenError(cause, got) ==
    [ok |-> FALSE, caption |-> <<>>, confidence |-> 0, raw |-> <<>>,
     cause |-> <<cause>>, error |-> WrapError(<<cause>>), got |-> got]

\* generate_caption(image_path, style): sample is what the stochastic decoding
\* and torch.rand yield, and whether the model run itself raises
generate_caption(image_path, style, sample) ==
    IF ~Exists(uploads, image_path) THEN GenError("FileNotFoundError", "none")
    ELSE LET got == ReadFile(uploads, image_path) IN
      IF ~Decodable(got) THEN GenError("UnidentifiedImageError", got)
      ELSE IF ~clip_processor THEN GenError("'NoneType' object is not callable", got)
      ELSE IF ~clip_model
        THEN GenError("'NoneType' object has no attribute 'get_image_features'", got)
      ELSE IF ~gpt2_tokenizer
        THEN GenError("'NoneType' object has no attribute 'encode'", got)
      ELSE IF ~gpt2_model
        THEN GenError("'NoneType' object has no attribute 'generate'", got)
      ELSE IF sample.fault THEN GenError("RuntimeError", got)
      ELSE [ok |-> TRUE,
            caption |-> CleanCaption(Decoded(style, sample.cont)),
            confidence |-> Confidence(sample.k),
            raw |-> Decoded(style, sample.cont),
            cause |-> <<>>, error |-> <<>>, got |-> got]

\* ------------------------------------------------------------------------
\* /health
\* ------------------------------------------------------------------------
health_check(r, requests) ==
    /\ boot = "serving"
    /\ pc[r] = "idle"
    /\ \E rq \in {q \in requests : q.route = "health"} :
          req' = [req EXCEPT ![r] = rq]
    /\ resp' = [resp EXCEPT ![r] =
                  Json(200, [status |-> "healthy",
                             models_loaded |-> clip_model /\ gpt2_model])]
    /\ pc' = [pc EXCEPT ![r] = "done"]
    /\ UNCHANGED <<models, uploads, loc, gh>>

\* ------------------------------------------------------------------------
\* /caption
\* ------------------------------------------------------------------------
CaptionValidate_NoStyleCheck(rq) ==
    IF ~rq.hasFile THEN "No file provided"
    ELSE IF rq.filename = <<>> THEN "No file selected"
    ELSE IF ~allowed_file(rq.filename)
      THEN "Invalid file type. Use JPG, PNG, WebP, or BMP"
    ELSE "ok"

\* the checks of lines 158-173, in order: the message of the first that
\* fails, "ok" when none does
CaptionValidate(rq) ==
    IF ~rq.hasFile THEN "No file provided"
    ELSE IF rq.filename = <<>> THEN "No file selected"
    ELSE IF ~allowed_file(rq.filename)
      THEN "Invalid file type. Use JPG, PNG, WebP, or BMP"
    ELSE IF FormStyle(rq.style) \notin {"creative", "technical", "simple"}
      THEN "Invalid style. Use creative, technical, or simple"
    ELSE "ok"

\* What file.save(filepath) can do: write the file; raise OSError before the
\* destination is created; raise it after the destination was created, which
\* leaves a truncated file ("truncated", which PIL cannot identify) at the path.
SaveOutcomes == {"saved", "refused", "truncated"}

AfterSave(dir, path, bytes, outcome) ==
    CASE outcome = "saved"     -> SaveFile(dir, path, bytes)
      [] outcome = "truncated" -> SaveFile(dir, path, "truncated")
      [] OTHER                 -> dir

\* lines 156-178: validation, then file.save(filepath)
caption_receive(r, requests) ==
    /\ boot = "serving"
    /\ pc[r] = "idle"
    /\ \E rq \in {q \in requests : q.route = "caption"}, outcome \in SaveOutcomes :
        LET v == CaptionValidate(rq)
            path == StagePath(r, rq.filename)
            l == [NoLoc EXCEPT !.style = FormStyle(rq.style),
                               !.filename = secure_filename(rq.filename),
                               !.filepath = path, !.bytes = rq.bytes]
        IN  /\ req' = [req EXCEPT ![r] = rq]
            /\ IF v # "ok"
               THEN /\ resp' = [resp EXCEPT ![r] = Json(400, [error |-> <<v>>])]
                    /\ pc' = [pc EXCEPT ![r] = "done"]
                    /\ UNCHANGED <<uploads, loc, gh>>
               ELSE /\ uploads' = AfterSave(uploads, path, rq.bytes, outcome)
                    /\ loc' = [loc EXCEPT ![r] = l]
                    /\ IF outcome = "saved"
                       THEN /\ gh' = [gh EXCEPT ![r].staged = {[path |-> path, bytes |-> rq.bytes]}]
                            /\ pc' = [pc EXCEPT ![r] = "c_generate"]
                            /\ UNCHANGED resp
                       ELSE /\ gh' = [gh EXCEPT ![r].stagefail = {0}]
                            /\ resp' = [resp EXCEPT ![r] = HandlerExcept(<<"OSError">>)]
                            /\ pc' = [pc EXCEPT ![r] = "done"]
    /\ UNCHANGED models

\* line 181
caption_generate(r, samples) ==
    /\ pc[r] = "c_generate"
    /\ \E sample \in samples :
        LET g == generate_caption(loc[r].filepath, loc[r].style, sample)
        IN  /\ gh' = [gh EXCEPT ![r].gen = @ \cup {loc[r].style},
                                ![r].got = g.got,
                                ![r].raw = g.raw,
                                ![r].generr = IF g.ok THEN @
                                              ELSE @ \cup {[i |-> 0, cause |-> g.cause]}]
            /\ IF g.ok
               THEN /\ loc' = [loc EXCEPT ![r].caption = g.caption,
                                          ![r].confidence = g.confidence]
                    /\ pc' = [pc EXCEPT ![r] = "c_info"]
                    /\ UNCHANGED resp
               ELSE /\ resp' = [resp EXCEPT ![r] = HandlerExcept(g.error)]
                    /\ pc' = [pc EXCEPT ![r] = "done"]
                    /\ UNCHANGED loc
    /\ UNCHANGED <<models, uploads, req>>

\* lines 184-185: image = Image.open(filepath); width, height = image.size
caption_info(r) ==
    /\ pc[r] = "c_info"
    /\ IF ~Exists(uploads, loc[r].filepath)
       THEN /\ resp' = [resp EXCEPT ![r] = HandlerExcept(<<"FileNotFoundError">>)]
            /\ pc' = [pc EXCEPT ![r] = "done"]
            /\ UNCHANGED loc
       ELSE IF ~Decodable(ReadFile(uploads, loc[r].filepath))
       THEN /\ resp' = [resp EXCEPT ![r] = HandlerExcept(<<"UnidentifiedImageError">>)]
            /\ pc' = [pc EXCEPT ![r] = "done"]
            /\ UNCHANGED loc
       ELSE /\ loc' = [loc EXCEPT ![r].info = ImageInfo(ReadFile(uploads, loc[r].filepath))]
            /\ pc' = [pc EXCEPT ![r] = "c_remove"]
            /\ UNCHANGED resp
    /\ UNCHANGED <<models, uploads, req, gh>>

\* lines 188-199: os.remove(filepath), then the 200 response
caption_remove(r) ==
    /\ pc[r] = "c_remove"
    /\ IF ~Exists(uploads, loc[r].filepath)
       THEN /\ resp' = [resp EXCEPT ![r] = HandlerExcept(<<"FileNotFoundError">>)]
            /\ UNCHANGED uploads
       ELSE /\ uploads' = RemoveFile(uploads, loc[r].filepath)
            /\ resp' = [resp EXCEPT ![r] =
                          Json(200, [caption |-> loc[r].caption,
                                     confidence |-> loc[r].confidence,
                                     style |-> loc[r].style,
                                     image_info |-> loc[r].info])]
    /\ pc' = [pc EXCEPT ![r] = "done"]
    /\ UNCHANGED <<models, req, loc, gh>>

\* ------------------------------------------------------------------------
\* /batch-caption
\* ------------------------------------------------------------------------
\* for file in files[:10]
BatchLimit == 10

Take(s, n) == SubSeq(s, 1, Min(Len(s), n))

AfterGenerate_SuccessOnly(l, ok) ==
    IF ok THEN [pc |-> "b_exists", i |-> l.i] ELSE [pc |-> "b_loop", i |-> l.i + 1]

\* the finally clause of lines 244-246 runs after the try body and after the
\* except clause alike
AfterGenerate(l, ok) == [pc |-> "b_exists", i |-> l.i]

\* lines 210-217
batch_receive(r, requests) ==
    /\ boot = "serving"
    /\ pc[r] = "idle"
    /\ \E rq \in {q \in requests : q.route = "batch"} :
        /\ req' = [req EXCEPT ![r] = rq]
        /\ IF rq.files = <<>>
           THEN /\ resp' = [resp EXCEPT ![r] =
                              Json(400, [error |-> <<"No files provided">>])]
                /\ pc' = [pc EXCEPT ![r] = "done"]
                /\ UNCHANGED loc
           ELSE /\ loc' = [loc EXCEPT ![r] = [NoLoc EXCEPT !.style = FormStyle(rq.style),
                                                            !.i = 1]]
                /\ pc' = [pc EXCEPT ![r] = "b_loop"]
                /\ UNCHANGED resp
    /\ UNCHANGED <<models, uploads, gh>>

\* lines 219-225 for the next file of files[:10], or the response of lines
\* 248-251 when there is none
batch_next(r) ==
    /\ pc[r] = "b_loop"
    /\ LET batch == Take(req[r].files, BatchLimit)
           i == loc[r].i
       IN  IF i > Len(batch)
           THEN /\ resp' = [resp EXCEPT ![r] =
                              Json(200, [captions |-> loc[r].results,
                                         total_processed |-> Len(loc[r].results)])]
                /\ pc' = [pc EXCEPT ![r] = "done"]
                /\ UNCHANGED <<uploads, loc, gh>>
           ELSE IF ~allowed_file(batch[i].filename)
           THEN /\ loc' = [loc EXCEPT ![r].i = i + 1]
                /\ gh' = [gh EXCEPT ![r].visited = @ \cup {i}]
                /\ UNCHANGED <<uploads, pc, resp>>
           ELSE \E outcome \in SaveOutcomes :
                LET path == StagePath(r, batch[i].filename)
                    l == [loc[r] EXCEPT !.filename = secure_filename(batch[i].filename),
                                        !.filepath = path,
                                        !.bytes = batch[i].bytes]
                IN  /\ loc' = [loc EXCEPT ![r] = l]
                    /\ uploads' = AfterSave(uploads, path, batch[i].bytes, outcome)
                    /\ IF outcome = "saved"
                       THEN /\ gh' = [gh EXCEPT ![r].visited = @ \cup {i},
                                                ![r].staged = @ \cup {[path |-> path,
                                                                      bytes |-> batch[i].bytes]}]
                            /\ pc' = [pc EXCEPT ![r] = "b_generate"]
                            /\ UNCHANGED resp
                       ELSE /\ gh' = [gh EXCEPT ![r].visited = @ \cup {i},
                                                ![r].stagefail = @ \cup {i}]
                            /\ resp' = [resp EXCEPT ![r] = HandlerExcept(<<"OSError">>)]
                            /\ pc' = [pc EXCEPT ![r] = "done"]
    /\ UNCHANGED <<models, req>>

\* lines 227-242: the try body and its except clause
batch_generate(r, samples) ==
    /\ pc[r] = "b_generate"
    /\ \E sample \in samples :
        LET g == generate_caption(loc[r].filepath, loc[r].style, sample)
            entry == IF g.ok
                     THEN [filename |-> loc[r].filename, caption |-> g.caption,
                           confidence |-> g.confidence, success |-> TRUE]
                     ELSE [filename |-> loc[r].filename, error |-> g.error,
                           success |-> FALSE]
            after == AfterGenerate(loc[r], g.ok)
        IN  /\ gh' = [gh EXCEPT ![r].gen = @ \cup {loc[r].style},
                                ![r].got = g.got,
                                ![r].raw = g.raw,
                                ![r].generr = IF g.ok THEN @
                                              ELSE @ \cup {[i |-> loc[r].i,
                                                            cause |-> g.cause]}]
            /\ loc' = [loc EXCEPT ![r].results = Append(@, entry),
                                  ![r].i = after.i]
            /\ pc' = [pc EXCEPT ![r] = after.pc]
    /\ UNCHANGED <<models, uploads, req, resp>>

\* line 245: if os.path.exists(filepath)
batch_exists(r) ==
    /\ pc[r] = "b_exists"
    /\ IF Exists(uploads, loc[r].filepath)
       THEN /\ pc' = [pc EXCEPT ![r] = "b_remove"]
            /\ UNCHANGED loc
       ELSE /\ pc' = [pc EXCEPT ![r] = "b_loop"]
            /\ loc' = [loc EXCEPT ![r].i = @ + 1]
    /\ UNCHANGED <<models, uploads, req, resp, gh>>

\* line 246: os.remove(filepath); a FileNotFoundError raised here leaves the
\* loop and reaches the except clause of lines 253-254
batch_remove(r) ==
    /\ pc[r] = "b_remove"
    /\ IF Exists(uploads, loc[r].filepath)
       THEN /\ uploads' = RemoveFile(uploads, loc[r].filepath)
            /\ loc' = [loc EXCEPT ![r].i = @ + 1]
            /\ pc' = [pc EXCEPT ![r] = "b_loop"]
            /\ UNCHANGED resp
       ELSE /\ resp' = [resp EXCEPT ![r] = HandlerExcept(<<"FileNotFoundError">>)]
            /\ pc' = [pc EXCEPT ![r] = "done"]
            /\ UNCHANGED <<uploads, loc>>
    /\ UNCHANGED <<models, req, gh>>

\* the response is sent and the thread takes the next request
reply(r) ==
    /\ pc[r] = "done"
    /\ pc' = [pc EXCEPT ![r] = "idle"]
    /\ req' = [req EXCEPT ![r] = NoReq]
    /\ loc' = [loc EXCEPT ![r] = NoLoc]
    /\ resp' = [resp EXCEPT ![r] = NoResp]
    /\ gh' = [gh EXCEPT ![r] = NoGh]
    /\ UNCHANGED <<models, uploads>>

\* ------------------------------------------------------------------------
\* Requests and samples the specifications draw from
\* ------------------------------------------------------------------------
NameEmpty == <<>>
NameGif == <<"a", ".", "g", "i", "f">>
NameNoDot == <<"p", "n", "g">>
NamePng == <<"a", ".", "P", "N", "G">>
\* sanitises to the same name as NamePng
NameTraversal == <<".", ".", "/", "a", ".", "P", "N", "G">>

HealthReq == [NoReq EXCEPT !.route = "health"]

CaptionReq(hasFile, filename, bytes, style) ==
    [NoReq EXCEPT !.route = "caption", !.hasFile = hasFile, !.filename = filename,
                  !.bytes = bytes, !.style = style]

BatchReq(files, style) == [NoReq EXCEPT !.route = "batch", !.files = files, !.style = style]

File(filename, bytes) == [filename |-> filename, bytes |-> bytes]

SeqsUpTo(S, n) == UNION {[1..k -> S] : k \in 0..n}

Sample(fault, cont, k) == [fault |-> fault, cont |-> cont, k |-> k]

\* Spec: concurrent requests; the two valid uploads of /caption and the
\* files of /batch-caption sanitise to one name
Requests ==
    { HealthReq,
      CaptionReq(FALSE, NameEmpty, "junk", NoStyle),
      CaptionReq(TRUE, NameGif, "imgA", NoStyle),
      CaptionReq(TRUE, NamePng, "imgA", "fancy"),
      CaptionReq(TRUE, NamePng, "imgA", NoStyle),
      CaptionReq(TRUE, NameTraversal, "imgB", "technical"),
      CaptionReq(TRUE, NameTraversal, "junk", "technical"),
      BatchReq(<<>>, NoStyle),
      BatchReq(<<File(NameGif, "imgA"), File(NamePng, "imgB")>>, "fancy"),
      BatchReq(<<File(NamePng, "junk"), File(NameTraversal, "imgA")>>, NoStyle) }

Samples ==
    { Sample(TRUE, <<>>, 0),
      Sample(FALSE, <<>>, 0),
      Sample(FALSE, <<" ", "a", ".">>, RandSteps - 1) }

\* SpecSeq: one request at a time, every name and style, long batches
SeqRequests ==
    {HealthReq}
    \cup {CaptionReq(h, n, b, st) :
            h \in BOOLEAN,
            n \in {NameEmpty, NameGif, NameNoDot, NamePng, NameTraversal},
            b \in Bytes,
            st \in {NoStyle, "", "creative", "technical", "simple", "fancy"}}
    \cup {BatchReq([i \in 1..n |-> File(NamePng, "imgA")] \o tail, st) :
            n \in 0..MaxPad,
            tail \in SeqsUpTo({File(NameGif, "imgA"), File(NamePng, "imgB"),
                               File(NameTraversal, "junk")}, MaxTail),
            st \in {NoStyle, "fancy"}}

\* what /caption's generation may sample in SpecSeq
SeqSamples ==
    {Sample(TRUE, <<>>, 0)}
    \cup {Sample(FALSE, c, k) :
            c \in {<<>>, <<".">>, <<" ">>, <<" ", "a", ".">>, <<" ", "a", ".", " ">>,
                   <<" ", "a", " ">>},
            k \in 0..(RandSteps - 1)}

\* what each generation of a batch may sample in SpecSeq
SeqBatchSamples ==
    {Sample(FALSE, <<" ", "a">>, RandSteps - 1)}

\* ------------------------------------------------------------------------
\* Specifications
\* ------------------------------------------------------------------------
\* the threaded server: handlers interleave at every file operation; the load
\* succeeded or raised at the tokenizer, after both model globals were assigned
Next ==
    \/ load_models({0, StmtIndex("GPT2Tokenizer.from_pretrained")})
    \/ \E r \in Reqs :
        \/ health_check(r, Requests)
        \/ caption_receive(r, Requests)
        \/ caption_generate(r, Samples)
        \/ caption_info(r)
        \/ caption_remove(r)
        \/ batch_receive(r, Requests)
        \/ batch_next(r)
        \/ batch_generate(r, Samples)
        \/ batch_exists(r)
        \/ batch_remove(r)
        \/ reply(r)

Spec == Init /\ [][Next]_vars

\* no other request is in flight while r's handler runs
Serial(r) == \A q \in Reqs \ {r} : pc[q] = "idle"

\* requests served one at a time; the load may have raised at any statement
NextSeq ==
    \/ load_models(0..Len(LoadStmts))
    \/ \E r \in Reqs :
        \/ Serial(r) /\ health_check(r, SeqRequests)
        \/ Serial(r) /\ caption_receive(r, SeqRequests)
        \/ Serial(r) /\ caption_generate(r, SeqSamples)
        \/ Serial(r) /\ caption_info(r)
        \/ Serial(r) /\ caption_remove(r)
        \/ Serial(r) /\ batch_receive(r, SeqRequests)
        \/ Serial(r) /\ batch_next(r)
        \/ Serial(r) /\ batch_generate(r, SeqBatchSamples)
        \/ Serial(r) /\ batch_exists(r)
        \/ Serial(r) /\ batch_remove(r)
        \/ Serial(r) /\ reply(r)

SpecSeq == Init /\ [][NextSeq]_vars

\* ------------------------------------------------------------------------
\* Properties
\* ------------------------------------------------------------------------
Returned(r, route) == pc[r] = "done" /\ req[r].route = route

\* the filename ends, whatever the case, in "." and one of the five extensions
HasImageExtension(filename) ==
    \E k \in DOMAIN filename :
        /\ filename[k] = "."
        /\ Lower(SubSeq(filename, k + 1, Len(filename)))
             \in { <<"p","n","g">>, <<"j","p","g">>, <<"j","p","e","g">>,
                   <<"w","e","b","p">>, <<"b","m","p">> }

InvalidCaptionRequest(rq) ==
    \/ ~rq.hasFile
    \/ rq.filename = <<>>
    \/ ~HasImageExtension(rq.filename)
    \/ (rq.style # NoStyle /\ rq.style \notin {"creative", "technical", "simple"})

\* C1: a /caption request that fails validation (no file part, empty
\* filename, extension outside {png, jpg, jpeg, webp, bmp}, style outside
\* {creative, technical, simple}) is answered 400, and its handler neither
\* wrote (or tried to write) a file to the upload directory nor called
\* generate_caption.
C1_InvalidRequestRejected ==
    \A r \in Reqs :
        (Returned(r, "caption") /\ InvalidCaptionRequest(req[r]))
        => /\ resp[r].status = 400
           /\ gh[r].staged = {}
           /\ gh[r].stagefail = {}
           /\ gh[r].gen = {}

\* a valid image upload with an unknown style was answered 400
C1_Witness ==
    \E r \in Reqs :
        /\ Returned(r, "caption")
        /\ req[r].hasFile /\ HasImageExtension(req[r].filename)
        /\ req[r].style = "fancy"
        /\ resp[r].status = 400

\* C2: on /caption and /batch-caption alike, generate_caption is never called
\* with a style outside {creative, technical, simple}.
C2_GenerateOnlyCatalogStyles ==
    \A r \in Reqs : gh[r].gen \subseteq {"creative", "technical", "simple"}

\* the sanitised names of the files with an image extension, in order
RECURSIVE ImageNames(_)
ImageNames(files) ==
    IF files = <<>> THEN <<>>
    ELSE IF HasImageExtension(Head(files).filename)
         THEN <<secure_filename(Head(files).filename)>> \o ImageNames(Tail(files))
         ELSE ImageNames(Tail(files))

FirstTen(files) == SubSeq(files, 1, IF Len(files) < 10 THEN Len(files) ELSE 10)

EntryNames(entries) == [j \in DOMAIN entries |-> entries[j].filename]

\* C3: for a non-empty list of files, the /batch-caption response has exactly
\* one entry, in upload order, for each of the first 10 files whose extension
\* is allowed, none for any other file, and total_processed is their number.
C3_BatchEntries ==
    \A r \in Reqs :
        (Returned(r, "batch") /\ req[r].files # <<>>)
        => /\ resp[r].status = 200
           /\ EntryNames(resp[r].body.captions) = ImageNames(FirstTen(req[r].files))
           /\ resp[r].body.total_processed = Len(ImageNames(FirstTen(req[r].files)))

\* the failures, of staging or of generation, met while serving the request
Failures(r) == gh[r].stagefail \cup {e.i : e \in gh[r].generr}

\* C4: in /batch-caption a failure on one file, in staging it or in
\* generating its caption, never aborts the request: the response is 200, the
\* loop reached every one of the first 10 files, and every failure has its
\* entry with success false.
C4_BatchNeverAborts ==
    \A r \in Reqs :
        (Returned(r, "batch") /\ req[r].files # <<>>)
        => /\ resp[r].status = 200
           /\ gh[r].visited = DOMAIN FirstTen(req[r].files)
           /\ Cardinality({j \in DOMAIN resp[r].body.captions :
                             ~resp[r].body.captions[j].success})
                = Cardinality(Failures(r))

\* C5: /health reports models_loaded true exactly when load_models completed,
\* and after a load that raised no model global is left assigned.
C5_HealthReflectsLoad ==
    /\ \A r \in Reqs :
          Returned(r, "health") => (resp[r].body.models_loaded <=> load_ok)
    /\ (boot = "serving" /\ ~load_ok)
          => ~(clip_model \/ clip_processor \/ gpt2_model \/ gpt2_tokenizer)

\* C6: a failure inside generate_caption never leaves the handler as an
\* exception: /caption answers 500 with the error "Error generating caption: "
\* followed by the underlying message, and /batch-caption records it in the
\* file's entry.
C6_GenerationFailureReported ==
    \A r \in Reqs :
        pc[r] = "done"
        => /\ ~resp[r].escaped
           /\ (req[r].route = "caption" /\ gh[r].generr # {})
                => /\ resp[r].status = 500
                   /\ \E e \in gh[r].generr :
                        resp[r].body.error = <<"Error generating caption: ">> \o e.cause
           /\ (req[r].route = "batch" /\ resp[r].status = 200)
                => \A e \in gh[r].generr :
                     \E j \in DOMAIN resp[r].body.captions :
                        /\ ~resp[r].body.captions[j].success
                        /\ resp[r].body.captions[j].error
                             = <<"Error generating caption: ">> \o e.cause

\* /caption answered 500 for a decodable upload generated against a bundle
\* whose tokenizer is None
C6_Witness ==
    \E r \in Reqs :
        /\ Returned(r, "caption")
        /\ ~gpt2_tokenizer
        /\ Decodable(req[r].bytes)
        /\ gh[r].generr # {}
        /\ resp[r].status = 500

\* C7: a 200 response of /caption carries a non-empty caption ending in a
\* period, which is the stripped generated text with a period appended exactly
\* when it did not end in one, a confidence within [0.85, 0.95], and the
\* requested style ("creative" when none was given).
C7_CaptionResponse ==
    \A r \in Reqs :
        (Returned(r, "caption") /\ resp[r].status = 200)
        => LET b == resp[r].body
               t == Strip(gh[r].raw, {" "})
           IN  /\ b.caption # <<>>
               /\ b.caption[Len(b.caption)] = "."
               /\ b.caption = IF t # <<>> /\ t[Len(t)] = "." THEN t ELSE t \o <<".">>
               /\ 85 * ConfDen <= 100 * b.confidence
               /\ 100 * b.confidence <= 95 * ConfDen
               /\ b.style = IF req[r].style = NoStyle THEN "creative" ELSE req[r].style

\* a 200 response without a style field in the form, whose generated text did
\* not end in a period
C7_Witness ==
    \E r \in Reqs :
        /\ Returned(r, "caption") /\ resp[r].status = 200
        /\ req[r].style = NoStyle
        /\ Strip(gh[r].raw, {" "})[Len(Strip(gh[r].raw, {" "}))] # "."
        /\ 100 * resp[r].body.confidence > 85 * ConfDen

Staging(r) == pc[r] \in {"c_generate", "c_info", "c_remove", "b_generate", "b_exists",
                         "b_remove"}

\* C10: two requests in flight whose filenames sanitise to the same name
\* stage at one and the same path.
C10_SameNameSamePath ==
    \A r, q \in Reqs :
        (Staging(r) /\ Staging(q) /\ loc[r].filename = loc[q].filename)
        => loc[r].filepath = loc[q].filepath

\* with the models loaded, /caption answered 500 for a decodable upload
\* because the file it staged was gone when generate_caption opened it
C10_Witness ==
    \E r \in Reqs :
        /\ Returned(r, "caption")
        /\ load_ok /\ Decodable(req[r].bytes)
        /\ resp[r].status = 500
        /\ resp[r].body.error = <<"Error generating caption: ", "FileNotFoundError">>

\* generate_caption read bytes another request staged over this one's
C10_Overwritten ==
    \E r \in Reqs :
        /\ pc[r] \in {"c_info", "b_exists"}
        /\ gh[r].got \notin {"none", loc[r].bytes}

====
